---- MODULE Spec2Model ----
(***************************************************************************)
(* Model of the knowledge-graph query tool, src/scripts/query_kg.py.       *)
(*                                                                         *)
(* The state is the document returned by load_knowledge_graph (a dict with *)
(* the optional keys entities, relationships and metadata) and the result  *)
(* of the last query function that ran against it, together with the file  *)
(* the document is read from and the position of main.  Python str values  *)
(* are sequences of one-character strings, so that str.lower, the `in`     *)
(* substring test, the code-point ordering used by sort/sorted and         *)
(* json.dumps are computed rather than assumed.  A Python dict is a record *)
(* whose DOMAIN is the set of keys that are present.                       *)
(*                                                                         *)
(* The session scripts (quick_resume.py, resume_state.py) work on three    *)
(* more files, data/session_state.json, data/kg.json and                   *)
(* data/registry.json; their state is the content of these files, the      *)
(* script that ran last and what it displayed.                             *)
(***************************************************************************)
EXTENDS Integers, Sequences, FiniteSets, TLC

VARIABLES kg, cmd, arg, out, err, file, pc, diag, reads,
          session, kgJson, registry, script, resume

\* the variables of the query tool and those of the session scripts
queryVars == <<kg, cmd, arg, out, err, file, pc, diag, reads>>

scriptVars == <<session, kgJson, registry, script, resume>>

vars == <<queryVars, scriptVars>>

(***************************************************************************)
(* Bounds of the model: the longest entities and relationships sequences   *)
(* of a loaded document.                                                   *)
(***************************************************************************)
MaxEntities == 2

MaxRelationships == 2

(***************************************************************************)
(* Python str operations.                                                  *)
(***************************************************************************)

\* str.lower() on one character (the upper-case letters of the alphabet used).
LowerChar(c) ==
    CASE c = "A" -> "a"
      [] c = "B" -> "b"
      [] c = "E" -> "e"
      [] c = "P" -> "p"
      [] OTHER -> c

\* str.lower()
lower(s) == [i \in 1..Len(s) |-> LowerChar(s[i])]

\* `needle in hay` for two str values
Contains(hay, needle) ==
    \E i \in 0..(Len(hay) - Len(needle)) :
        SubSeq(hay, i + 1, i + Len(needle)) = needle

\* ord(c): the code point, which is what str comparison compares
Ord(c) ==
    CASE c = "1" -> 49 [] c = "2" -> 50 [] c = "9" -> 57
      [] c = "A" -> 65 [] c = "B" -> 66 [] c = "P" -> 80
      [] c = "a" -> 97 [] c = "b" -> 98 [] c = "e" -> 101
      [] c = "k" -> 107 [] c = "n" -> 110 [] c = "o" -> 111
      [] c = "p" -> 112 [] c = "u" -> 117 [] c = "w" -> 119

\* a < b for two str values (lexicographic on code points)
RECURSIVE StrLess(_, _)
StrLess(a, b) ==
    IF b = <<>> THEN FALSE
    ELSE IF a = <<>> THEN TRUE
    ELSE IF Ord(Head(a)) # Ord(Head(b)) THEN Ord(Head(a)) < Ord(Head(b))
    ELSE StrLess(Tail(a), Tail(b))

\* list.sort(key=...) and sorted(key=...): a stable sort, here by insertion
\* into the already sorted prefix after every element that is not greater.
\* The elements are [key |-> the str compared, value |-> the element].
RECURSIVE InsertSorted(_, _)
InsertSorted(sortedSeq, x) ==
    IF sortedSeq = <<>> THEN <<x>>
    ELSE IF StrLess(x.key, Head(sortedSeq).key)
         THEN <<x>> \o sortedSeq
         ELSE <<Head(sortedSeq)>> \o InsertSorted(Tail(sortedSeq), x)

RECURSIVE SortFrom(_, _)
SortFrom(acc, rest) ==
    IF rest = <<>> THEN acc
    ELSE SortFrom(InsertSorted(acc, Head(rest)), Tail(rest))

\* the sort proper, on the keyed elements
StableSort(keyed) == SortFrom(<<>>, keyed)

\* the elements of a sorted keyed sequence
Values(keyed) == [i \in 1..Len(keyed) |-> keyed[i].value]

(***************************************************************************)
(* The str values that occur in the documents and queries of the model.    *)
(***************************************************************************)
Id1 == <<"e", "1">>

Id2 == <<"e", "2">>

\* an id that no entity of the model carries: the endpoint of a dangling edge
Id9 == <<"e", "9">>

NameAb == <<"A", "b">>

NameA == <<"a">>

NameB == <<"B">>

TypeP == <<"p">>

TypeUpperP == <<"P">>

TypeOp == <<"o", "p">>

RelW == <<"w">>

RelK == <<"k">>

\* the default of .get('type', 'unknown')
Unknown == <<"u", "n", "k", "n", "o", "w", "n">>

(***************************************************************************)
(* Documents.  An entity is a dict with the keys id and name and, unless   *)
(* the document left them out, type and properties; a relationship is a    *)
(* dict with the keys source and target and, unless left out, type.        *)
(* (source_file and confidence are present on every entity and             *)
(* relationship of the model and are not represented.)  A properties       *)
(* mapping is the sequence of its <<key, value>> items, a value being a    *)
(* str, [scalar |-> s], or a list of str, [list |-> <<s1, ...>>].          *)
(***************************************************************************)
Entity(i, n, t) == [id |-> i, name |-> n, type |-> t]

EntityWithProperties(i, n, t, p) ==
    [id |-> i, name |-> n, type |-> t, properties |-> p]

\* {"w": ["a", "B"], "k": "e1"}
Properties ==
    << <<RelW, [list |-> <<NameA, NameB>>]>>, <<RelK, [scalar |-> Id1]>> >>

Relationship(s, t, ty) == [source |-> s, target |-> t, type |-> ty]

\* entities that follow the data model: every one has a type
TypedEntities ==
    { Entity(Id1, NameAb, TypeP),
      Entity(Id2, NameA, TypeUpperP),
      EntityWithProperties(Id2, NameB, TypeOp, Properties),
      Entity(Id1, NameB, TypeUpperP) }

\* relationships that follow the data model; the last two are dangling
TypedRelationships ==
    { Relationship(Id1, Id2, RelW),
      Relationship(Id2, Id1, RelK),
      Relationship(Id1, Id1, RelW),
      Relationship(Id1, Id9, RelK),
      Relationship(Id9, Id2, RelW) }

\* json.load also accepts an entity or a relationship without the type key
UntypedEntities == { [id |-> Id1, name |-> NameA] }

UntypedRelationships == { [source |-> Id2, target |-> Id1] }

\* the metadata mapping of the model, as a sequence of <<key, value>>
Metadata == << <<NameA, Id1>> >>

SeqsUpTo(S, n) == UNION { [1..m -> S] : m \in 0..n }

\* the dicts with the one key `key` and a value of `values`, and the dict
\* without it
Optional(key, values) == { [x \in {key} |-> v] : v \in values } \cup { <<>> }

\* The documents json.load can return, with the entities drawn from E and
\* the relationships from R: each of the keys entities and relationships is
\* present or not.  (Documents without the metadata key, and one with the
\* notes key, are among the Files below.)
Documents(E, R) ==
    { e @@ r @@ [metadata |-> Metadata] :
        e \in Optional("entities", SeqsUpTo(E, MaxEntities)),
        r \in Optional("relationships", SeqsUpTo(R, MaxRelationships)) }

\* the notes mapping of the model, as a sequence of <<key, value>>
Notes == << <<NameB, Id2>> >>

\* What open() and json.load find at the path: no file, text that is not
\* JSON, bytes that are not text, or a document.
FileNotFound == [error |-> "FileNotFoundError"]

InvalidJson == [error |-> "JSONDecodeError"]

Undecodable == [error |-> "UnicodeDecodeError"]

LoadFailures == { FileNotFound, InvalidJson, Undecodable }

FileDocuments ==
    { <<>>,
      [entities |-> <<>>, relationships |-> <<>>, notes |-> Notes],
      [entities |-> <<>>, relationships |-> <<>>, metadata |-> Metadata],
      [entities |-> << Entity(Id1, NameAb, TypeP),
                       Entity(Id2, NameA, TypeUpperP) >>,
       relationships |-> << Relationship(Id1, Id2, RelW) >>,
       metadata |-> Metadata],
      [entities |-> << EntityWithProperties(Id2, NameB, TypeOp, Properties) >>] }

Files == LoadFailures \cup FileDocuments

\* dict.get(key, default) for the keys the code reads with .get
\* kg.get('entities', [None])
GetEntitiesDefaultNone(k) ==
    IF "entities" \in DOMAIN k THEN k.entities ELSE << [NoneType |-> TRUE] >>

GetEntities(k) == IF "entities" \in DOMAIN k THEN k.entities ELSE <<>>

GetRelationships(k) ==
    IF "relationships" \in DOMAIN k THEN k.relationships ELSE <<>>

GetMetadata(k) == IF "metadata" \in DOMAIN k THEN k.metadata ELSE <<>>

\* kg.get('notes', {})
GetNotes(k) == IF "notes" \in DOMAIN k THEN k.notes ELSE <<>>

HasKey(d, key) == key \in DOMAIN d

\* the value of next(..., None) when the generator is empty
None == [NoneType |-> TRUE]

NoError == "none"

KeyError == "KeyError"

\* a lookup through an index {e['id']: e for e in entities}, in which a later
\* entity replaces an earlier one with the same id
RECURSIVE LastWithId(_, _)
LastWithId(ents, ident) ==
    IF ents = <<>> THEN None
    ELSE IF ents[Len(ents)].id = ident THEN ents[Len(ents)]
    ELSE LastWithId(SubSeq(ents, 1, Len(ents) - 1), ident)

\* next((e for e in kg.get('entities', []) if e['id'] == ident), None)
RECURSIVE FirstWithId(_, _)
FirstWithId(ents, ident) ==
    IF ents = <<>> THEN None
    ELSE IF Head(ents).id = ident THEN Head(ents)
    ELSE FirstWithId(Tail(ents), ident)

\* a lookup loop that leaves the last entity examined bound when none matches
ResolveEntityOrLast(k, ident) ==
    IF FirstWithId(GetEntities(k), ident) # None \/ GetEntities(k) = <<>>
    THEN FirstWithId(GetEntities(k), ident)
    ELSE GetEntities(k)[Len(GetEntities(k))]

ResolveEntity(k, ident) == FirstWithId(GetEntities(k), ident)

\* entity.get('name', '')
GetName(e) == IF HasKey(e, "name") THEN e.name ELSE <<>>

\* The matching loop of find_entity and find_related: the entities whose
\* lower-cased name contains the (already lower-cased) pattern, appended in
\* the order of the entities sequence.
\* the matching loop without .lower() on the entity's name
RECURSIVE MatchByNameAsWritten(_, _, _)
MatchByNameAsWritten(ents, pattern, matches) ==
    IF ents = <<>> THEN matches
    ELSE MatchByNameAsWritten(Tail(ents), pattern,
                     IF Contains(GetName(Head(ents)), pattern)
                     THEN Append(matches, Head(ents))
                     ELSE matches)

RECURSIVE MatchByName(_, _, _)
MatchByName(ents, pattern, matches) ==
    IF ents = <<>> THEN matches
    ELSE MatchByName(Tail(ents), pattern,
                     IF Contains(lower(GetName(Head(ents))), pattern)
                     THEN Append(matches, Head(ents))
                     ELSE matches)

Related(e, ty, dir) == [entity |-> e, relationship |-> ty, direction |-> dir]

(***************************************************************************)
(* find_entity.  The result is what is displayed: one block per match,     *)
(* with the relationship lines printed under it.  A print that reads the   *)
(* type key of a dict that has none raises KeyError and ends the call; the *)
(* blocks and lines printed before it stay printed.                        *)
(***************************************************************************)

\* The "Relationships:" loop of one displayed entity.  A relationship that
\* has the entity as its source is only ever looked at as outgoing (elif).
RECURSIVE EntityRelationshipLines(_, _, _, _)
EntityRelationshipLines(k, entity, rels, lines) ==
    IF rels = <<>> THEN [lines |-> lines, err |-> NoError]
    ELSE LET rel == Head(rels) IN
         IF rel.source = entity.id
         THEN LET target == ResolveEntity(k, rel.target) IN
              IF target # None
              THEN IF HasKey(rel, "type") /\ HasKey(target, "type")
                   THEN EntityRelationshipLines(k, entity, Tail(rels),
                            Append(lines, Related(target, rel.type, "outgoing")))
                   ELSE [lines |-> lines, err |-> KeyError]
              ELSE EntityRelationshipLines(k, entity, Tail(rels), lines)
         ELSE IF rel.target = entity.id
         THEN LET source == ResolveEntity(k, rel.source) IN
              IF source # None
              THEN IF HasKey(source, "type") /\ HasKey(rel, "type")
                   THEN EntityRelationshipLines(k, entity, Tail(rels),
                            Append(lines, Related(source, rel.type, "incoming")))
                   ELSE [lines |-> lines, err |-> KeyError]
              ELSE EntityRelationshipLines(k, entity, Tail(rels), lines)
         ELSE EntityRelationshipLines(k, entity, Tail(rels), lines)

\* entity.get('properties', {}).items()
GetProperties(e) == IF HasKey(e, "properties") THEN e.properties ELSE <<>>

\* ', '.join(value)
RECURSIVE JoinList(_)
JoinList(strs) ==
    IF strs = <<>> THEN <<>>
    ELSE IF Len(strs) = 1 THEN Head(strs)
    ELSE Head(strs) \o <<",", " ">> \o JoinList(Tail(strs))

\* the "Properties:" lines of one displayed entity: a list value is shown
\* joined, any other value as it is
PropertyLines(e) ==
    [i \in 1..Len(GetProperties(e)) |->
        LET key == GetProperties(e)[i][1]
            value == GetProperties(e)[i][2]
        IN  <<key, IF HasKey(value, "list") THEN JoinList(value.list)
                   ELSE value.scalar>>]

\* the display loop over the matches
RECURSIVE DisplayEntities(_, _, _)
DisplayEntities(k, matches, blocks) ==
    IF matches = <<>> THEN [out |-> blocks, err |-> NoError]
    ELSE LET entity == Head(matches) IN
         IF ~HasKey(entity, "type") THEN [out |-> blocks, err |-> KeyError]
         ELSE LET r == EntityRelationshipLines(k, entity, GetRelationships(k), <<>>)
                  block == [entity |-> entity,
                            properties |-> PropertyLines(entity),
                            relationships |-> r.lines]
              IN  IF r.err # NoError
                  THEN [out |-> Append(blocks, block), err |-> r.err]
                  ELSE DisplayEntities(k, Tail(matches), Append(blocks, block))

\* find_entity displaying its matches sorted by name
find_entity_sorted(k, name) ==
    LET matches == MatchByName(GetEntities(k), lower(name), <<>>)
        byName == Values(StableSort([i \in 1..Len(matches) |->
                             [key |-> GetName(matches[i]), value |-> matches[i]]]))
    IN  DisplayEntities(k, byName, <<>>)

find_entity(k, name) ==
    LET matches == MatchByName(GetEntities(k), lower(name), <<>>)
    IN  DisplayEntities(k, matches, <<>>)

(***************************************************************************)
(* find_related.  One block per matching entity, with its related entries  *)
(* as displayed: the outgoing ones collected first, then the incoming      *)
(* ones, then the list sorted by the neighbor's name.                      *)
(***************************************************************************)

\* the entity['name'] key of related.sort
NeighborName(item) == item.entity.name

\* "Check relationships where entity is source"
RECURSIVE CollectOutgoing(_, _, _, _)
CollectOutgoing(k, entity, rels, related) ==
    IF rels = <<>> THEN [related |-> related, err |-> NoError]
    ELSE LET rel == Head(rels)
             target == ResolveEntity(k, rel.target)
         IN  IF rel.source = entity.id /\ target # None
             THEN IF HasKey(rel, "type")
                  THEN CollectOutgoing(k, entity, Tail(rels),
                           Append(related, Related(target, rel.type, "outgoing")))
                  ELSE [related |-> related, err |-> KeyError]
             ELSE CollectOutgoing(k, entity, Tail(rels), related)

\* "Check relationships where entity is target"
RECURSIVE CollectIncoming(_, _, _, _)
CollectIncoming(k, entity, rels, related) ==
    IF rels = <<>> THEN [related |-> related, err |-> NoError]
    ELSE LET rel == Head(rels)
             source == ResolveEntity(k, rel.source)
         IN  IF rel.target = entity.id /\ source # None
             THEN IF HasKey(rel, "type")
                  THEN CollectIncoming(k, entity, Tail(rels),
                           Append(related, Related(source, rel.type, "incoming")))
                  ELSE [related |-> related, err |-> KeyError]
             ELSE CollectIncoming(k, entity, Tail(rels), related)

\* related.sort with the key lower-cased
SortRelatedIgnoringCase(related) ==
    Values(StableSort([i \in 1..Len(related) |->
                          [key |-> lower(NeighborName(related[i])), value |-> related[i]]]))

\* related.sort(key=lambda x: x['entity']['name'])
SortRelated(related) ==
    Values(StableSort([i \in 1..Len(related) |->
                          [key |-> NeighborName(related[i]), value |-> related[i]]]))

\* the print loop over the sorted entries: the longest prefix whose
\* neighbors all have a type
RECURSIVE PrintRelated(_, _)
PrintRelated(related, printed) ==
    IF related = <<>> THEN [related |-> printed, err |-> NoError]
    ELSE IF HasKey(Head(related).entity, "type")
         THEN PrintRelated(Tail(related), Append(printed, Head(related)))
         ELSE [related |-> printed, err |-> KeyError]

\* RelatedOf without the second loop
RelatedOfOutgoingOnly(k, entity) ==
    LET outgoing == CollectOutgoing(k, entity, GetRelationships(k), <<>>)
    IN  IF outgoing.err # NoError THEN [related |-> <<>>, err |-> outgoing.err]
        ELSE PrintRelated(SortRelated(outgoing.related), <<>>)

\* the body of the loop over the matching entities, after the heading
RelatedOf(k, entity) ==
    LET outgoing == CollectOutgoing(k, entity, GetRelationships(k), <<>>)
        incoming == CollectIncoming(k, entity, GetRelationships(k), outgoing.related)
    IN  IF outgoing.err # NoError THEN [related |-> <<>>, err |-> outgoing.err]
        ELSE IF incoming.err # NoError THEN [related |-> <<>>, err |-> incoming.err]
        ELSE PrintRelated(SortRelated(incoming.related), <<>>)

RECURSIVE DisplayRelated(_, _, _)
DisplayRelated(k, entities, blocks) ==
    IF entities = <<>> THEN [out |-> blocks, err |-> NoError]
    ELSE LET entity == Head(entities) IN
         IF ~HasKey(entity, "type") THEN [out |-> blocks, err |-> KeyError]
         ELSE LET r == RelatedOf(k, entity)
                  block == [entity |-> entity, related |-> r.related]
              IN  IF r.err # NoError
                  THEN [out |-> Append(blocks, block), err |-> r.err]
                  ELSE DisplayRelated(k, Tail(entities), Append(blocks, block))

\* find_related reading entities[0] before it tests for an empty match list
find_related_indexing(k, name) ==
    LET entities == MatchByName(GetEntities(k), lower(name), <<>>)
    IN  IF entities = <<>>
        THEN [out |-> <<>>, err |-> "IndexError"]
        ELSE DisplayRelated(k, entities, <<>>)

find_related(k, name) ==
    LET entities == MatchByName(GetEntities(k), lower(name), <<>>)
    IN  DisplayRelated(k, entities, <<>>)

(***************************************************************************)
(* list_types.  types and rel_types are Python sets: the order in which a  *)
(* set is iterated is not fixed, so sorted() receives the elements in an   *)
(* order the caller cannot choose (entityOrder, relOrder).                 *)
(***************************************************************************)

\* d.get('type', 'unknown')
GetTypeOrUnknown(d) == IF HasKey(d, "type") THEN d.type ELSE Unknown

\* the set built by the types.add(...) loop
TypeSet(items) == { GetTypeOrUnknown(items[i]) : i \in DOMAIN items }

\* the orders in which a set can be iterated
IterationOrders(S) ==
    { order \in [1..Cardinality(S) -> S] :
        \A i, j \in 1..Cardinality(S) : i # j => order[i] # order[j] }

\* the iteration order left as it is
unsorted(order) == order

\* sorted(types): the elements are their own keys
sorted(order) ==
    Values(StableSort([i \in 1..Len(order) |->
                          [key |-> order[i], value |-> order[i]]]))

\* sum(1 for e in items if e.get('type') == t): .get without a default gives
\* None for a dict that has no type, and None equals no str
CountOfType(items, t) ==
    Cardinality({ i \in DOMAIN items : HasKey(items[i], "type") /\ items[i].type = t })

TypeCounts(items, order) ==
    LET ts == sorted(order)
    IN  [i \in 1..Len(ts) |-> [type |-> ts[i], count |-> CountOfType(items, ts[i])]]

list_types(k, entityOrder, relOrder) ==
    [entity_types |-> TypeCounts(GetEntities(k), entityOrder),
     relationship_types |-> TypeCounts(GetRelationships(k), relOrder)]

(***************************************************************************)
(* list_entities_by_type                                                   *)
(***************************************************************************)

\* entity.get('type', '')
GetTypeOrEmpty(e) == IF HasKey(e, "type") THEN e.type ELSE <<>>

\* the matching loop with `in` in place of ==
RECURSIVE MatchByTypeSubstring(_, _, _)
MatchByTypeSubstring(ents, entity_type, entities) ==
    IF ents = <<>> THEN entities
    ELSE MatchByTypeSubstring(Tail(ents), entity_type,
                     IF Contains(lower(GetTypeOrEmpty(Head(ents))), entity_type)
                     THEN Append(entities, Head(ents))
                     ELSE entities)

RECURSIVE MatchByType(_, _, _)
MatchByType(ents, entity_type, entities) ==
    IF ents = <<>> THEN entities
    ELSE MatchByType(Tail(ents), entity_type,
                     IF lower(GetTypeOrEmpty(Head(ents))) = entity_type
                     THEN Append(entities, Head(ents))
                     ELSE entities)

\* entities.sort(key=lambda x: x.get('name', '')) on the local list
SortByName(entities) ==
    Values(StableSort([i \in 1..Len(entities) |->
                          [key |-> GetName(entities[i]), value |-> entities[i]]]))

list_entities_by_type(k, entity_type) ==
    SortByName(MatchByType(GetEntities(k), lower(entity_type), <<>>))

(***************************************************************************)
(* search.  json.dumps writes a dict as {"key": "value", ...} with the     *)
(* keys in the order of the dict.                                          *)
(***************************************************************************)
Quoted(s) == <<"\"">> \o s \o <<"\"">>

\* a member whose value is already serialized
MemberOf(key, dumped) == Quoted(key) \o <<":", " ">> \o dumped

Member(key, value) == MemberOf(key, Quoted(value))

RECURSIVE JoinMembers(_)
JoinMembers(members) ==
    IF members = <<>> THEN <<>>
    ELSE IF Len(members) = 1 THEN Head(members)
    ELSE Head(members) \o <<",", " ">> \o JoinMembers(Tail(members))

\* a properties value: "s" or ["s1", "s2"]
DumpsValue(value) ==
    IF HasKey(value, "list")
    THEN <<"[">> \o JoinMembers([i \in 1..Len(value.list) |-> Quoted(value.list[i])])
         \o <<"]">>
    ELSE Quoted(value.scalar)

DumpsProperties(props) ==
    <<"{">>
    \o JoinMembers([i \in 1..Len(props) |-> MemberOf(props[i][1], DumpsValue(props[i][2]))])
    \o <<"}">>

DumpsEntity(e) ==
    <<"{">>
    \o JoinMembers(<<Member(<<"i", "d">>, e.id),
                     Member(<<"n", "a", "m", "e">>, e.name)>>
                   \o (IF HasKey(e, "type")
                       THEN <<Member(<<"t", "y", "p", "e">>, e.type)>>
                       ELSE <<>>)
                   \o (IF HasKey(e, "properties")
                       THEN <<MemberOf(<<"p", "r", "o", "p", "e", "r", "t", "i", "e", "s">>,
                                       DumpsProperties(e.properties))>>
                       ELSE <<>>))
    \o <<"}">>

\* str(v) of a properties value: the str itself, or the repr of the list,
\* ['s1', 's2']
SingleQuoted(s) == <<"'">> \o s \o <<"'">>

StrOfValue(value) ==
    IF HasKey(value, "list")
    THEN <<"[">> \o JoinMembers([i \in 1..Len(value.list) |-> SingleQuoted(value.list[i])])
         \o <<"]">>
    ELSE value.scalar

\* matching_props with `term in str(k) or term in str(v)`
RECURSIVE MatchingPropsAsWritten(_, _, _)
MatchingPropsAsWritten(props, term, matching) ==
    IF props = <<>> THEN matching
    ELSE MatchingPropsAsWritten(Tail(props), term,
             IF \/ Contains(Head(props)[1], term)
                \/ Contains(StrOfValue(Head(props)[2]), term)
             THEN Append(matching, Head(props))
             ELSE matching)

\* matching_props: the properties items whose key or value contains the term
RECURSIVE MatchingProps(_, _, _)
MatchingProps(props, term, matching) ==
    IF props = <<>> THEN matching
    ELSE MatchingProps(Tail(props), term,
             IF \/ Contains(lower(Head(props)[1]), term)
                \/ Contains(lower(StrOfValue(Head(props)[2])), term)
             THEN Append(matching, Head(props))
             ELSE matching)

DumpsRelationship(r) ==
    <<"{">>
    \o JoinMembers(<<Member(<<"s", "o", "u", "r", "c", "e">>, r.source),
                     Member(<<"t", "a", "r", "g", "e", "t">>, r.target)>>
                   \o (IF HasKey(r, "type")
                       THEN <<Member(<<"t", "y", "p", "e">>, r.type)>>
                       ELSE <<>>))
    \o <<"}">>

\* the entities loop of a search that looks at the name only
RECURSIVE SearchEntitiesByName(_, _, _)
SearchEntitiesByName(ents, term, results) ==
    IF ents = <<>> THEN results
    ELSE SearchEntitiesByName(Tail(ents), term,
             IF Contains(lower(GetName(Head(ents))), term)
             THEN Append(results, [type |-> "entity", data |-> Head(ents)])
             ELSE results)

\* "Search in entities"
RECURSIVE SearchEntities(_, _, _)
SearchEntities(ents, term, results) ==
    IF ents = <<>> THEN results
    ELSE SearchEntities(Tail(ents), term,
             IF Contains(lower(DumpsEntity(Head(ents))), term)
             THEN Append(results, [type |-> "entity", data |-> Head(ents)])
             ELSE results)

\* "Search in relationships"
RECURSIVE SearchRelationships(_, _, _, _)
SearchRelationships(k, rels, term, results) ==
    IF rels = <<>> THEN results
    ELSE LET rel == Head(rels)
             source == ResolveEntity(k, rel.source)
             target == ResolveEntity(k, rel.target)
         IN  SearchRelationships(k, Tail(rels), term,
                 IF /\ Contains(lower(DumpsRelationship(rel)), term)
                    /\ source # None
                    /\ target # None
                 THEN Append(results, [type |-> "relationship", data |-> rel,
                                       source |-> source, target |-> target])
                 ELSE results)

\* what is printed for one result: an entity with its matching properties,
\* a relationship with its source and target
Printed(result, term) ==
    IF result.type = "entity"
    THEN [type |-> "entity", data |-> result.data,
          matching_props |-> MatchingProps(GetProperties(result.data), term, <<>>)]
    ELSE result

\* the print loop over the results: the longest prefix whose data all have
\* a type
RECURSIVE PrintResults(_, _, _)
PrintResults(results, term, printed) ==
    IF results = <<>> THEN [out |-> printed, err |-> NoError]
    ELSE IF HasKey(Head(results).data, "type")
         THEN PrintResults(Tail(results), term,
                           Append(printed, Printed(Head(results), term)))
         ELSE [out |-> printed, err |-> KeyError]

search(k, term) ==
    LET entityResults == SearchEntities(GetEntities(k), lower(term), <<>>)
        results == SearchRelationships(k, GetRelationships(k), lower(term),
                                       entityResults)
    IN  PrintResults(results, lower(term), <<>>)

(***************************************************************************)
(* show_info                                                               *)
(***************************************************************************)

\* len(set(d.get('type', '').lower() for d in items))
DistinctTypesIgnoringCase(items) ==
    Cardinality({ IF HasKey(items[i], "type") THEN lower(items[i].type) ELSE <<>> :
                  i \in DOMAIN items })

\* len(set(d.get('type') for d in items)): the dicts without a type all
\* contribute the one value None
DistinctTypes(items) ==
    Cardinality({ items[i].type : i \in { j \in DOMAIN items : HasKey(items[j], "type") } })
    + (IF \E i \in DOMAIN items : ~HasKey(items[i], "type") THEN 1 ELSE 0)

\* show_info with entity_count = len(kg), the number of top-level keys
show_info_len_kg(k) ==
    [entity_count |-> Cardinality(DOMAIN k),
     rel_count |-> Len(GetRelationships(k)),
     note_count |-> Len(GetNotes(k)),
     entity_types |-> DistinctTypes(GetEntities(k)),
     rel_types |-> DistinctTypes(GetRelationships(k)),
     metadata |-> GetMetadata(k)]

show_info(k) ==
    [entity_count |-> Len(GetEntities(k)),
     rel_count |-> Len(GetRelationships(k)),
     note_count |-> Len(GetNotes(k)),
     entity_types |-> DistinctTypes(GetEntities(k)),
     rel_types |-> DistinctTypes(GetRelationships(k)),
     metadata |-> GetMetadata(k)]

(***************************************************************************)
(* The query arguments of the model.                                       *)
(***************************************************************************)
NamePatterns == { NameAb, NameA, NameB }

TypeArguments == { TypeUpperP, TypeOp, <<"o">> }

SearchTerms == { <<"E", "1">>, <<"b">>, <<"w">> }

(***************************************************************************)
(* The state machine: a document is loaded, then query functions are       *)
(* called on it.                                                           *)
(***************************************************************************)
NoArgument == <<>>

\* what load_knowledge_graph prints
NoDiagnostic == "none"

NotFoundMessage == "Error: Knowledge graph file not found"

InvalidJsonMessage == "Error: Invalid JSON in knowledge graph file"

\* an exception that load_knowledge_graph does not catch ends the process
\* with a traceback
Traceback == "Traceback (most recent call last)"

\* load_knowledge_graph: the document, or the message printed before
\* sys.exit(1)
load_or_empty(f) ==
    IF f = FileNotFound
    THEN [kg |-> <<>>, diag |-> NotFoundMessage, exited |-> FALSE]
    ELSE IF f = InvalidJson
    THEN [kg |-> <<>>, diag |-> InvalidJsonMessage, exited |-> FALSE]
    ELSE IF f = Undecodable
    THEN [kg |-> <<>>, diag |-> Traceback, exited |-> FALSE]
    ELSE [kg |-> f, diag |-> NoDiagnostic, exited |-> FALSE]

load_knowledge_graph(f) ==
    IF f = FileNotFound
    THEN [kg |-> None, diag |-> NotFoundMessage, exited |-> TRUE]
    ELSE IF f = InvalidJson
    THEN [kg |-> None, diag |-> InvalidJsonMessage, exited |-> TRUE]
    ELSE IF f = Undecodable
    THEN [kg |-> None, diag |-> Traceback, exited |-> TRUE]
    ELSE [kg |-> f, diag |-> NoDiagnostic, exited |-> FALSE]

\* no query has run: main has only loaded, or not yet
NoQuery ==
    /\ cmd = "load"
    /\ arg = NoArgument
    /\ out = <<>>
    /\ err = NoError

\* no session script has run and its files are not looked at
NoScript ==
    /\ session = None
    /\ kgJson = None
    /\ registry = None
    /\ script = "none"
    /\ resume = None

\* main after kg = load_knowledge_graph(args.kg) returned the document in
\* the file
Loaded ==
    /\ NoScript
    /\ NoQuery
    /\ file = kg
    /\ pc = "loaded"
    /\ diag = NoDiagnostic
    /\ reads = 1

Init ==
    /\ kg \in Documents(TypedEntities, TypedRelationships)
    /\ Loaded

InitAnyJson ==
    /\ kg \in Documents(TypedEntities \cup UntypedEntities,
                        TypedRelationships \cup UntypedRelationships)
    /\ Loaded

\* main at its first statement
InitMain ==
    /\ NoScript
    /\ file \in Files
    /\ kg = None
    /\ pc = "start"
    /\ diag = NoDiagnostic
    /\ reads = 0
    /\ NoQuery

\* kg = load_knowledge_graph(args.kg)
Load ==
    LET r == load_knowledge_graph(file) IN
    /\ pc = "start"
    /\ reads' = reads + 1
    /\ kg' = r.kg
    /\ diag' = r.diag
    /\ pc' = IF r.exited THEN "exited" ELSE "loaded"
    /\ UNCHANGED <<file, cmd, arg, out, err, scriptVars>>

\* another process replaces the file
Rewrite ==
    \E f \in Files :
        /\ f # file
        /\ file' = f
        /\ UNCHANGED <<kg, cmd, arg, out, err, pc, diag, reads, scriptVars>>

\* the status the process ends with: sys.exit(1) in load_knowledge_graph,
\* 1 after an uncaught exception, 0 when main returns
ExitStatus == IF pc = "exited" \/ err # NoError THEN 1 ELSE 0

\* No query function reads cmd, arg, out or err: what a call yields after
\* other calls is what it yields right after the load.  The model follows the
\* load by any call, and a call by the same call again.
CanCall(c, a) == pc = "loaded" /\ (cmd = "load" \/ (cmd = c /\ arg = a))

\* find_entity opening the file again instead of using the loaded document
FindEntityRereading ==
    \E name \in NamePatterns :
        LET doc == IF file \in LoadFailures THEN kg ELSE file
            r == find_entity(doc, name) IN
        /\ CanCall("find_entity", name)
        /\ cmd' = "find_entity"
        /\ arg' = name
        /\ out' = r.out
        /\ err' = r.err
        /\ kg' = doc
        /\ reads' = reads + 1
        /\ UNCHANGED <<file, pc, diag, scriptVars>>

FindEntity ==
    \E name \in NamePatterns :
        LET r == find_entity(kg, name) IN
        /\ CanCall("find_entity", name)
        /\ cmd' = "find_entity"
        /\ arg' = name
        /\ out' = r.out
        /\ err' = r.err
        /\ UNCHANGED <<kg, file, pc, diag, reads, scriptVars>>

FindRelated ==
    \E name \in NamePatterns :
        LET r == find_related(kg, name) IN
        /\ CanCall("find_related", name)
        /\ cmd' = "find_related"
        /\ arg' = name
        /\ out' = r.out
        /\ err' = r.err
        /\ UNCHANGED <<kg, file, pc, diag, reads, scriptVars>>

ListTypes ==
    \E entityOrder \in IterationOrders(TypeSet(GetEntities(kg))),
       relOrder \in IterationOrders(TypeSet(GetRelationships(kg))) :
        /\ CanCall("list_types", NoArgument)
        /\ cmd' = "list_types"
        /\ arg' = NoArgument
        /\ out' = list_types(kg, entityOrder, relOrder)
        /\ err' = NoError
        /\ UNCHANGED <<kg, file, pc, diag, reads, scriptVars>>

\* list_entities_by_type sorting the document's own entities list
ListEntitiesByTypeInPlace ==
    \E entity_type \in TypeArguments :
        /\ CanCall("list_entities_by_type", entity_type)
        /\ cmd' = "list_entities_by_type"
        /\ arg' = entity_type
        /\ out' = list_entities_by_type(kg, entity_type)
        /\ err' = NoError
        /\ kg' = IF HasKey(kg, "entities")
                 THEN [kg EXCEPT !.entities = SortByName(kg.entities)]
                 ELSE kg
        /\ UNCHANGED <<file, pc, diag, reads, scriptVars>>

ListEntitiesByType ==
    \E entity_type \in TypeArguments :
        /\ CanCall("list_entities_by_type", entity_type)
        /\ cmd' = "list_entities_by_type"
        /\ arg' = entity_type
        /\ out' = list_entities_by_type(kg, entity_type)
        /\ err' = NoError
        /\ UNCHANGED <<kg, file, pc, diag, reads, scriptVars>>

Search ==
    \E term \in SearchTerms :
        LET r == search(kg, term) IN
        /\ CanCall("search", term)
        /\ cmd' = "search"
        /\ arg' = term
        /\ out' = r.out
        /\ err' = r.err
        /\ UNCHANGED <<kg, file, pc, diag, reads, scriptVars>>

ShowInfo ==
    /\ CanCall("show_info", NoArgument)
    /\ cmd' = "show_info"
    /\ arg' = NoArgument
    /\ out' = show_info(kg)
    /\ err' = NoError
    /\ UNCHANGED <<kg, file, pc, diag, reads, scriptVars>>

Next ==
    \/ FindEntity
    \/ FindRelated
    \/ ListTypes
    \/ ListEntitiesByType
    \/ Search
    \/ ShowInfo

Spec == Init /\ [][Next]_vars

SpecAnyJson == InitAnyJson /\ [][Next]_vars

\* main from its first statement, with the file open to other processes
NextMain ==
    \/ Load
    \/ Rewrite
    \/ Next

SpecMain == InitMain /\ [][NextMain]_vars

(***************************************************************************)
(* The session scripts.  A count is a Python int, [int |-> n], or the str  *)
(* 'Unknown', [str |-> "Unknown"], so that != between the two is computed. *)
(***************************************************************************)

\* the longest processed_files mapping and relationship_types list
MaxFiles == 1

MaxTypes == 6

IntValue(n) == [int |-> n]

UnknownStr == [str |-> "Unknown"]

\* the values of last_updated: one written earlier, and datetime.now()
Earlier == "earlier"

Now == "now"

\* the relationship type names of a taxonomy summary, sorted and distinct
RelationshipTypeNames ==
    << <<"a">>, <<"b">>, <<"e">>, <<"k">>, <<"n">>, <<"o">>, <<"p">>, <<"w">> >>

\* the items of a processed_files mapping
ProcessedFileItems == << <<NameA, Id1>>, <<NameB, Id2>>, <<NameAb, Id9>> >>

\* the session states update_state.py and quick_resume.py write
SessionStates ==
    { [project_state |->
           [entity_count |-> IntValue(e), relationship_count |-> IntValue(r),
            files_processed |-> f, last_updated |-> Earlier],
       taxonomy_summary |->
           [relationship_types |-> SubSeq(RelationshipTypeNames, 1, n)]] :
        e \in 0..MaxEntities, r \in 0..MaxRelationships,
        f \in { IntValue(m) : m \in 0..MaxFiles } \cup { UnknownStr },
        n \in 0..MaxTypes }

\* what is at data/session_state.json: no file, text that is not JSON, the
\* empty object, or a session state
SessionFiles == { FileNotFound, InvalidJson, <<>> } \cup SessionStates

\* what is at data/kg.json
KgJsonFiles ==
    { FileNotFound, InvalidJson }
    \cup { e @@ r :
             e \in Optional("entities",
                            SeqsUpTo({ Entity(Id1, NameA, TypeP) }, MaxEntities)),
             r \in Optional("relationships",
                            SeqsUpTo({ Relationship(Id1, Id1, RelW) },
                                     MaxRelationships)) }

\* what is at data/registry.json
RegistryFiles ==
    { FileNotFound, InvalidJson }
    \cup Optional("processed_files",
                  { SubSeq(ProcessedFileItems, 1, m) : m \in 0..MaxFiles })

Unreadable(f) == f = FileNotFound \/ f = InvalidJson

load_session_state(f) == IF Unreadable(f) THEN None ELSE f

\* `not state`
Falsy(state) == state = None \/ state = <<>>

get_kg_stats(f) ==
    IF Unreadable(f)
    THEN [entity_count |-> UnknownStr, relationship_count |-> UnknownStr]
    ELSE [entity_count |-> IntValue(Len(GetEntities(f))),
          relationship_count |-> IntValue(Len(GetRelationships(f)))]

get_processed_files(f) ==
    IF Unreadable(f) THEN UnknownStr
    ELSE IntValue(Len(IF HasKey(f, "processed_files") THEN f.processed_files ELSE <<>>))

\* "Update state if it doesn't match current files"
NeedsUpdate(state, entity_count) ==
    entity_count # UnknownStr /\ state.project_state.entity_count # entity_count

Updated(state, stats, files_processed) ==
    [state EXCEPT !.project_state =
        [@ EXCEPT !.entity_count = stats.entity_count,
                  !.relationship_count = stats.relationship_count,
                  !.files_processed = files_processed,
                  !.last_updated = Now]]

\* "Print summary": the lines of quick_resume that show the counts
Summary(state) ==
    [last_updated |-> state.project_state.last_updated,
     files_processed |-> state.project_state.files_processed,
     entity_count |-> state.project_state.entity_count,
     relationship_count |-> state.project_state.relationship_count]

CouldNotLoad == [error |-> "Error: Could not load session state."]

\* quick_resume.py main
QuickResume ==
    LET state == load_session_state(session)
        stats == get_kg_stats(kgJson)
        files_processed == get_processed_files(registry)
        final == IF NeedsUpdate(state, stats.entity_count)
                 THEN Updated(state, stats, files_processed)
                 ELSE state
    IN  /\ script' = "quick_resume"
        /\ IF Falsy(state)
           THEN /\ resume' = (IF state = None THEN CouldNotLoad ELSE None)
                /\ UNCHANGED session
           ELSE /\ session' = final
                /\ resume' = Summary(final)
        /\ UNCHANGED <<kgJson, registry, queryVars>>

\* the "Relationship types" line of the summary: the text after "Key types
\* include" and the number before "more"
RelationshipTypesLine(state) ==
    LET relationship_types == state.taxonomy_summary.relationship_types IN
    [listed |-> JoinList(SubSeq(relationship_types, 1,
                                IF Len(relationship_types) < 5
                                THEN Len(relationship_types) ELSE 5)),
     more |-> Len(relationship_types) - 5]

\* resume_state.py main: generate_claude_state_summary and its display
GenerateResume ==
    LET state == load_session_state(session) IN
    /\ script' = "resume_state"
    /\ resume' = IF Falsy(state)
                 THEN (IF state = None THEN CouldNotLoad ELSE None)
                 ELSE RelationshipTypesLine(state)
    /\ UNCHANGED <<session, kgJson, registry, queryVars>>

\* the query tool is not run
NoQueryTool ==
    /\ kg = None
    /\ file = None
    /\ pc = "none"
    /\ diag = NoDiagnostic
    /\ reads = 0
    /\ NoQuery

InitResume ==
    /\ session \in SessionFiles
    /\ kgJson \in KgJsonFiles
    /\ registry \in RegistryFiles
    /\ script = "none"
    /\ resume = None
    /\ NoQueryTool

NextResume ==
    \/ QuickResume
    \/ GenerateResume

SpecResume == InitResume /\ [][NextResume]_vars

(***************************************************************************)
(* What the properties below speak about, stated on the document itself.   *)
(***************************************************************************)
Entities == GetEntities(kg)

Rels == GetRelationships(kg)

Range(s) == { s[i] : i \in DOMAIN s }

\* the id is the id of some entity of the document
Resolvable(ident) == \E i \in DOMAIN Entities : Entities[i].id = ident

BothEndpointsResolve(r) == Resolvable(r.source) /\ Resolvable(r.target)

\* the name contains the pattern, compared case-insensitively
NameMatches(e, pattern) == Contains(lower(e.name), lower(pattern))

\* related holds an entry for the neighbor with the given id
HasEntry(related, ident, ty, dir) ==
    \E j \in DOMAIN related :
        /\ related[j].entity \in Range(Entities)
        /\ related[j].entity.id = ident
        /\ related[j].relationship = ty
        /\ related[j].direction = dir

\* C1: for every relationship R with both endpoints resolvable,
\* find_related on a pattern matching R's source entity yields an entry for
\* R's target with R's type tagged outgoing, and on a pattern matching R's
\* target entity an entry for R's source with R's type tagged incoming.
C1_RelatedInBothDirections ==
    cmd = "find_related" =>
        \A n \in DOMAIN Entities, i \in DOMAIN Rels :
            (NameMatches(Entities[n], arg) /\ BothEndpointsResolve(Rels[i])) =>
                /\ Rels[i].source = Entities[n].id =>
                       \E b \in DOMAIN out :
                           /\ out[b].entity = Entities[n]
                           /\ HasEntry(out[b].related, Rels[i].target,
                                       Rels[i].type, "outgoing")
                /\ Rels[i].target = Entities[n].id =>
                       \E b \in DOMAIN out :
                           /\ out[b].entity = Entities[n]
                           /\ HasEntry(out[b].related, Rels[i].source,
                                       Rels[i].type, "incoming")

\* A relationship between two different matched entities is shown outgoing
\* under its source and incoming under its target.
C1_Witness ==
    /\ cmd = "find_related"
    /\ \E b, c \in DOMAIN out, i \in DOMAIN Rels :
           /\ out[b].entity.id # out[c].entity.id
           /\ Rels[i].source = out[b].entity.id
           /\ Rels[i].target = out[c].entity.id
           /\ HasEntry(out[b].related, Rels[i].target, Rels[i].type, "outgoing")
           /\ HasEntry(out[c].related, Rels[i].source, Rels[i].type, "incoming")

\* the indices of the relationships counted as outgoing (incoming) for an
\* entity: the entity's id is the source (target) and the other endpoint
\* resolves
OutgoingOf(e) ==
    { i \in DOMAIN Rels : Rels[i].source = e.id /\ Resolvable(Rels[i].target) }

IncomingOf(e) ==
    { i \in DOMAIN Rels : Rels[i].target = e.id /\ Resolvable(Rels[i].source) }

\* the term occurs in the serialized relationship, compared case-insensitively
RelationshipMatches(r, term) == Contains(lower(DumpsRelationship(r)), lower(term))

RelationshipResults == SelectSeq(out, LAMBDA x : x.type = "relationship")

\* C2: a relationship whose source or target id resolves to no entity never
\* appears in a find_related result nor among the relationship results of
\* search, no error is raised, and every relationship with both endpoints
\* resolvable is still returned.
C2_DanglingEdgesExcluded ==
    /\ cmd = "find_related" =>
           /\ err = NoError
           /\ \A b \in DOMAIN out :
                  /\ \A j \in DOMAIN out[b].related :
                         out[b].related[j].entity \in Range(Entities)
                  /\ Len(out[b].related)
                       = Cardinality(OutgoingOf(out[b].entity))
                         + Cardinality(IncomingOf(out[b].entity))
    /\ cmd = "search" =>
           /\ err = NoError
           /\ \A j \in DOMAIN RelationshipResults :
                  BothEndpointsResolve(RelationshipResults[j].data)
           /\ Len(RelationshipResults)
                = Cardinality({ i \in DOMAIN Rels :
                                  /\ RelationshipMatches(Rels[i], arg)
                                  /\ BothEndpointsResolve(Rels[i]) })

\* find_related on an entity that has a dangling relationship and a
\* resolvable one; search on a term that a dangling relationship and a
\* resolvable one both match.
C2_WitnessRelated ==
    /\ cmd = "find_related"
    /\ \E b \in DOMAIN out, i \in DOMAIN Rels :
           /\ Rels[i].source = out[b].entity.id
           /\ ~Resolvable(Rels[i].target)
           /\ Len(out[b].related) > 0

C2_WitnessSearch ==
    /\ cmd = "search"
    /\ Len(RelationshipResults) > 0
    /\ \E i \in DOMAIN Rels :
           /\ RelationshipMatches(Rels[i], arg)
           /\ ~Resolvable(Rels[i].source)

\* C3: find_entity matches exactly the entities whose name contains the
\* pattern case-insensitively, and reports them in the order of the
\* document's entities sequence.
C3_MatchesInLoadOrder ==
    cmd = "find_entity" =>
        [b \in 1..Len(out) |-> out[b].entity]
          = SelectSeq(Entities, LAMBDA e : NameMatches(e, arg))

\* two matches, reported in load order although that is not the
\* alphabetical order, one of them matched only case-insensitively
C3_Witness ==
    /\ cmd = "find_entity"
    /\ Len(out) = 2
    /\ StrLess(out[2].entity.name, out[1].entity.name)
    /\ \E b \in DOMAIN out : ~Contains(out[b].entity.name, arg)

\* the entity a resolvable id stands for: the first one carrying it
EntityWithId(ident) ==
    Entities[CHOOSE i \in DOMAIN Entities :
                 /\ Entities[i].id = ident
                 /\ \A j \in 1..(i - 1) : Entities[j].id # ident]

OutgoingEntry(i) == Related(EntityWithId(Rels[i].target), Rels[i].type, "outgoing")

IncomingEntry(i) == Related(EntityWithId(Rels[i].source), Rels[i].type, "incoming")

\* the entries of entity e that come from the relationships i..Len(Rels), in
\* the order of the relationships sequence
RECURSIVE InRelationshipOrder(_, _)
InRelationshipOrder(e, i) ==
    IF i > Len(Rels) THEN <<>>
    ELSE (IF i \in OutgoingOf(e) THEN <<OutgoingEntry(i)>> ELSE <<>>)
         \o (IF i \in IncomingOf(e) THEN <<IncomingEntry(i)>> ELSE <<>>)
         \o InRelationshipOrder(e, i + 1)

\* the same entries with all outgoing ones before all incoming ones, each
\* group in the order of the relationships sequence
OutgoingThenIncoming(e) ==
    SelectSeq(InRelationshipOrder(e, 1), LAMBDA x : x.direction = "outgoing")
    \o SelectSeq(InRelationshipOrder(e, 1), LAMBDA x : x.direction = "incoming")

WithNeighborName(related, n) == SelectSeq(related, LAMBDA x : x.entity.name = n)

SortedByNeighborName(related) ==
    \A p, q \in DOMAIN related :
        p < q => ~StrLess(related[q].entity.name, related[p].entity.name)

Names == { Entities[i].name : i \in DOMAIN Entities }

\* C4 as claimed: the related entries of every matched entity are ordered by
\* neighbor name (code-point comparison), and entries with identical
\* neighbor names keep the order in which their relationships appear in the
\* relationships sequence.
C4_TiesInRelationshipOrder ==
    cmd = "find_related" =>
        \A b \in DOMAIN out :
            /\ SortedByNeighborName(out[b].related)
            /\ \A n \in Names :
                   WithNeighborName(out[b].related, n)
                     = WithNeighborName(InRelationshipOrder(out[b].entity, 1), n)

\* C4 as amended: the related entries of every matched entity are ordered by
\* neighbor name (code-point comparison); among entries with identical
\* neighbor names the outgoing ones come before the incoming ones, and
\* entries of the same direction keep the order of their relationships.
C4_TiesOutgoingFirst ==
    cmd = "find_related" =>
        \A b \in DOMAIN out :
            /\ SortedByNeighborName(out[b].related)
            /\ \A n \in Names :
                   WithNeighborName(out[b].related, n)
                     = WithNeighborName(OutgoingThenIncoming(out[b].entity), n)

\* a matched entity with three entries: the sort moved a neighbor whose name
\* has the smaller code points in front (although it compares greater
\* case-insensitively), and two entries tie on the neighbor name
C4_Witness ==
    /\ cmd = "find_related"
    /\ \E b \in DOMAIN out :
           /\ Len(out[b].related) = 3
           /\ out[b].related # OutgoingThenIncoming(out[b].entity)
           /\ \E p, q \in DOMAIN out[b].related :
                  /\ p < q
                  /\ out[b].related[p].entity.name = out[b].related[q].entity.name
                  /\ out[b].related[p].direction = "outgoing"
                  /\ out[b].related[q].direction = "incoming"
           /\ \E p, q \in DOMAIN out[b].related :
                  /\ p < q
                  /\ StrLess(lower(out[b].related[q].entity.name),
                             lower(out[b].related[p].entity.name))

RECURSIVE SumOfCounts(_)
SumOfCounts(typeCounts) ==
    IF typeCounts = <<>> THEN 0
    ELSE Head(typeCounts).count + SumOfCounts(Tail(typeCounts))

\* C5: for every loaded document, the per-type counts list_types reports for
\* entities sum to the number of entities, and those it reports for
\* relationships sum to the number of relationships.
C5_CountsSumToTotals ==
    cmd = "list_types" =>
        /\ SumOfCounts(out.entity_types) = Len(Entities)
        /\ SumOfCounts(out.relationship_types) = Len(Rels)

\* the term occurs in the serialized entity, compared case-insensitively
EntityMatches(e, term) == Contains(lower(DumpsEntity(e)), lower(term))

EntityResults == SelectSeq(out, LAMBDA x : x.type = "entity")

\* C6: search returns exactly every entity whose serialized representation
\* contains the term case-insensitively and every relationship whose
\* serialized representation contains it and whose source and target both
\* resolve to entities of the document; nothing else.
C6_SearchResults ==
    cmd = "search" =>
        /\ \A j \in DOMAIN out : out[j].type \in {"entity", "relationship"}
        /\ { EntityResults[j].data : j \in DOMAIN EntityResults }
             = { e \in Range(Entities) : EntityMatches(e, arg) }
        /\ Len(EntityResults)
             = Cardinality({ i \in DOMAIN Entities : EntityMatches(Entities[i], arg) })
        /\ { RelationshipResults[j].data : j \in DOMAIN RelationshipResults }
             = { r \in Range(Rels) :
                   RelationshipMatches(r, arg) /\ BothEndpointsResolve(r) }
        /\ Len(RelationshipResults)
             = Cardinality({ i \in DOMAIN Rels :
                               /\ RelationshipMatches(Rels[i], arg)
                               /\ BothEndpointsResolve(Rels[i]) })

\* a search that returns an entity whose name does not contain the term (its
\* id does, in another letter case) and a relationship, and leaves out a
\* matching relationship with a dangling endpoint and a non-matching entity
C6_Witness ==
    /\ cmd = "search"
    /\ \E j \in DOMAIN EntityResults : ~NameMatches(EntityResults[j].data, arg)
    /\ Len(EntityResults) < Len(Entities)
    /\ Len(RelationshipResults) > 0
    /\ \E i \in DOMAIN Rels :
           RelationshipMatches(Rels[i], arg) /\ ~BothEndpointsResolve(Rels[i])

\* the entities whose type equals the given type, compared case-insensitively
TypeEquals(e, entity_type) == lower(e.type) = lower(entity_type)

\* the number of positions at which a sequence holds the element
Occurrences(s, x) == Cardinality({ i \in DOMAIN s : s[i] = x })

\* C7: list_entities_by_type returns exactly the entities whose type equals
\* the given type case-insensitively (the whole type, not a part of it),
\* ordered by name; when there is none the result is empty and no error is
\* raised.
C7_EntitiesOfTypeByName ==
    cmd = "list_entities_by_type" =>
        /\ err = NoError
        /\ \A e \in Range(Entities) \cup Range(out) :
               Occurrences(out, e)
                 = (IF TypeEquals(e, arg) THEN Occurrences(Entities, e) ELSE 0)
        /\ \A p, q \in DOMAIN out :
               p < q => ~StrLess(out[q].name, out[p].name)

\* two entities whose types differ from the argument only in letter case are
\* listed in another order than they were loaded, or nothing is listed
\* although an entity's type contains the argument
C7_WitnessSorted ==
    /\ cmd = "list_entities_by_type"
    /\ Len(out) = 2
    /\ out # SelectSeq(Entities, LAMBDA e : TypeEquals(e, arg))
    /\ \E p \in DOMAIN out : out[p].type # arg

C7_WitnessEmpty ==
    /\ cmd = "list_entities_by_type"
    /\ out = <<>>
    /\ \E i \in DOMAIN Entities : Contains(lower(Entities[i].type), lower(arg))

\* C8: for every entity E of the document, find_entity called with E's name
\* as the pattern includes E among its matches.
C8_FindsEntityByItsName ==
    cmd = "find_entity" =>
        \A i \in DOMAIN Entities :
            Entities[i].name = arg => \E b \in DOMAIN out : out[b].entity = Entities[i]

\* find_entity called with a name that has an upper-case letter displays
\* the entity of that name
C8_Witness ==
    /\ cmd = "find_entity"
    /\ arg # lower(arg)
    /\ \E b \in DOMAIN out : out[b].entity.name = arg

\* C9: no query operation changes the loaded document: after any sequence of
\* queries its entities, relationships and metadata have the contents and
\* the order they had after the load.
C9_QueriesLeaveDocumentUnchanged == [][kg' = kg]_vars

\* a query has displayed two entities in another order than the document
\* holds them
C9_Witness ==
    /\ cmd = "list_entities_by_type"
    /\ Len(out) = 2
    /\ Len(Entities) = 2
    /\ out[1] = Entities[2]
    /\ out[2] = Entities[1]
    /\ out[1] # out[2]
    /\ HasKey(kg, "metadata")

\* C10: a query operation called twice with the same input on the unchanged
\* document yields the same output in the same order.
C10_SameCallSameOutput ==
    [][(cmd' = cmd /\ arg' = arg /\ kg' = kg) => (out' = out /\ err' = err)]_vars

\* list_types has reported two or more entity types and two relationship
\* types, whose sets can be iterated in more than one order
C10_Witness ==
    /\ cmd = "list_types"
    /\ Len(out.entity_types) >= 2
    /\ Len(out.relationship_types) >= 2
    /\ Cardinality(IterationOrders(TypeSet(Entities))) >= 2

\* the message load_knowledge_graph leaves for what it found at the path
DiagnosticFor(f) ==
    IF f = FileNotFound THEN NotFoundMessage
    ELSE IF f = InvalidJson THEN InvalidJsonMessage
    ELSE Traceback

\* C11: when the document file does not exist or cannot be parsed, the
\* invocation ends with a non-zero status and a diagnostic message before
\* any query runs, and the load is not tried again: the one read of the file
\* ends main, and after it nothing of the invocation changes.
C11_LoadFailureEndsInvocation ==
    /\ [](pc = "exited" =>
             /\ ExitStatus # 0
             /\ diag # NoDiagnostic
             /\ NoQuery
             /\ reads = 1)
    /\ [][(pc = "start" /\ reads' # reads /\ file \in LoadFailures) =>
             (pc' = "exited" /\ diag' = DiagnosticFor(file))]_vars
    /\ [][pc = "exited" =>
             UNCHANGED <<kg, cmd, arg, out, err, pc, diag, reads>>]_vars

\* main has ended on a file that is not JSON, while the file has since
\* become a document
C11_Witness ==
    /\ pc = "exited"
    /\ diag = InvalidJsonMessage
    /\ file \in FileDocuments
    /\ reads = 1

\* C12: when the parsed document lacks the entities section, the
\* relationships section or both, every query treats the missing section as
\* an empty sequence and completes without failing: without entities nothing
\* is found, listed or counted as an entity and no relationship resolves;
\* without relationships no entity has a relationship and none is found,
\* listed or counted; show_info reports 0 for the missing section's count.
C12_MissingSectionsAreEmpty ==
    /\ ~HasKey(kg, "entities") =>
           /\ err = NoError
           /\ cmd \in {"find_entity", "find_related", "list_entities_by_type",
                       "search"} => out = <<>>
           /\ cmd = "list_types" => out.entity_types = <<>>
           /\ cmd = "show_info" =>
                  (out.entity_count = 0 /\ out.entity_types = 0)
    /\ ~HasKey(kg, "relationships") =>
           /\ err = NoError
           /\ cmd = "find_entity" =>
                  \A b \in DOMAIN out : out[b].relationships = <<>>
           /\ cmd = "find_related" =>
                  \A b \in DOMAIN out : out[b].related = <<>>
           /\ cmd = "search" => RelationshipResults = <<>>
           /\ cmd = "list_types" => out.relationship_types = <<>>
           /\ cmd = "show_info" => (out.rel_count = 0 /\ out.rel_types = 0)

\* show_info ran on a document that has relationships and no entities
\* section
C12_Witness ==
    /\ ~HasKey(kg, "entities")
    /\ Len(GetRelationships(kg)) > 0
    /\ cmd = "show_info"
    /\ out.entity_count = 0
    /\ out.rel_count > 0

\* the query ran to its end: nothing was raised and main returns
CompletedNormally == err = NoError /\ ExitStatus = 0

\* C13: for find_entity, find_related, list_entities_by_type and search, a
\* query that matches nothing (no entity name contains the pattern, no entity
\* has the type, no entity and no resolvable relationship contains the term)
\* completes normally with an empty result: no exception is raised and the
\* invocation does not end with a failure status.
C13_NoMatchIsEmptyResult ==
    /\ (/\ cmd \in {"find_entity", "find_related"}
        /\ \A n \in DOMAIN Entities : ~NameMatches(Entities[n], arg)) =>
           (out = <<>> /\ CompletedNormally)
    /\ (/\ cmd = "list_entities_by_type"
        /\ \A n \in DOMAIN Entities : ~TypeEquals(Entities[n], arg)) =>
           (out = <<>> /\ CompletedNormally)
    /\ (/\ cmd = "search"
        /\ \A n \in DOMAIN Entities : ~EntityMatches(Entities[n], arg)
        /\ \A i \in DOMAIN Rels :
               ~(RelationshipMatches(Rels[i], arg)
                 /\ BothEndpointsResolve(Rels[i]))) =>
           (out = <<>> /\ CompletedNormally)

\* find_related found no entity in a document that has entities and
\* relationships
C13_WitnessRelated ==
    /\ cmd = "find_related"
    /\ Entities # <<>>
    /\ Rels # <<>>
    /\ \A n \in DOMAIN Entities : ~NameMatches(Entities[n], arg)
    /\ out = <<>>
    /\ err = NoError

\* search found nothing although a dangling relationship contains the term
C13_WitnessSearch ==
    /\ cmd = "search"
    /\ Entities # <<>>
    /\ \E i \in DOMAIN Rels : RelationshipMatches(Rels[i], arg)
    /\ out = <<>>
    /\ err = NoError

\* C14: show_info reports the total number of entities, the total number of
\* relationships, the number of distinct entity types and the number of
\* distinct relationship types of the document, and passes every metadata
\* key and value through unchanged, in the order of the document.
C14_InfoCountsAndMetadata ==
    cmd = "show_info" =>
        /\ err = NoError
        /\ out.entity_count = Len(Entities)
        /\ out.rel_count = Len(Rels)
        /\ out.entity_types =
               Cardinality({ Entities[n].type : n \in DOMAIN Entities })
        /\ out.rel_types = Cardinality({ Rels[i].type : i \in DOMAIN Rels })
        /\ HasKey(kg, "metadata") => out.metadata = kg.metadata
        /\ ~HasKey(kg, "metadata") => out.metadata = <<>>

\* show_info ran on a document with metadata whose two entities have types
\* that differ only in letter case
C14_Witness ==
    /\ cmd = "show_info"
    /\ out.entity_count = 2
    /\ out.entity_types = 2
    /\ lower(Entities[1].type) = lower(Entities[2].type)
    /\ out.rel_count > out.rel_types
    /\ out.metadata # <<>>

NoTypesListed == out.entity_types = <<>> /\ out.relationship_types = <<>>

\* C15 as claimed: for a document whose entities and relationships sequences
\* are both empty, show_info reports every count as 0 and list_types lists
\* no types, and neither raises an error.
C15_EmptyDocumentAllCountsZero ==
    (Entities = <<>> /\ Rels = <<>>) =>
        /\ cmd = "show_info" =>
               /\ err = NoError
               /\ out.entity_count = 0
               /\ out.rel_count = 0
               /\ out.note_count = 0
               /\ out.entity_types = 0
               /\ out.rel_types = 0
        /\ cmd = "list_types" => (err = NoError /\ NoTypesListed)

\* C15: for a document whose entities and relationships sequences are both
\* empty, show_info reports 0 entities, 0 relationships, 0 entity types and
\* 0 relationship types, while its notes count is the number of notes of the
\* document; list_types lists no types; neither raises an error.
C15_EmptyDocumentGraphCountsZero ==
    (Entities = <<>> /\ Rels = <<>>) =>
        /\ cmd = "show_info" =>
               /\ err = NoError
               /\ out.entity_count = 0
               /\ out.rel_count = 0
               /\ out.entity_types = 0
               /\ out.rel_types = 0
               /\ out.note_count = IF HasKey(kg, "notes") THEN Len(kg.notes) ELSE 0
        /\ cmd = "list_types" => (err = NoError /\ NoTypesListed)

\* show_info ran on a document with notes and with empty entities and
\* relationships sequences
C15_Witness ==
    /\ cmd = "show_info"
    /\ HasKey(kg, "entities") /\ kg.entities = <<>>
    /\ HasKey(kg, "relationships") /\ kg.relationships = <<>>
    /\ HasKey(kg, "notes")
    /\ out.entity_count = 0
    /\ out.note_count > 0

\* the properties of an entity, none when it has no properties key
PropertiesOf(e) == IF HasKey(e, "properties") THEN e.properties ELSE <<>>

\* the key of the entry, or its value as text, contains the term, compared
\* case-insensitively
EntryMatches(entry, term) ==
    \/ Contains(lower(entry[1]), lower(term))
    \/ Contains(lower(StrOfValue(entry[2])), lower(term))

\* C16: for every entity returned by search, the matching properties shown
\* are exactly the entries of its properties whose key or whose value
\* contains the search term case-insensitively, in the order of the
\* properties; entries that do not contain the term are not shown.
C16_MatchingProperties ==
    cmd = "search" =>
        \A j \in DOMAIN out :
            out[j].type = "entity" =>
                out[j].matching_props =
                    SelectSeq(PropertiesOf(out[j].data),
                              LAMBDA entry : EntryMatches(entry, arg))

\* search returned an entity with two properties and shows the one whose
\* value, not its key, contains the term in another letter case
C16_Witness ==
    /\ cmd = "search"
    /\ \E j \in DOMAIN out :
           /\ out[j].type = "entity"
           /\ Len(PropertiesOf(out[j].data)) = 2
           /\ Len(out[j].matching_props) = 1
           /\ ~Contains(lower(out[j].matching_props[1][1]), lower(arg))
           /\ ~Contains(StrOfValue(out[j].matching_props[1][2]), lower(arg))

\* two entities of the document carry the given id
Duplicated(ident) ==
    \E m, n \in DOMAIN Entities :
        m # n /\ Entities[m].id = ident /\ Entities[n].id = ident

\* the entity shown for an endpoint id is the first of the entities
\* sequence that carries the id
FirstInLoadOrder(e, ident) == e.id = ident /\ e = EntityWithId(ident)

\* C17: when several entities share an id no query fails, and every
\* relationship endpoint is resolved to the first entity in load order that
\* carries the endpoint's id, in find_entity, find_related and search alike.
C17_DuplicateIdsResolveToFirst ==
    (\E n \in DOMAIN Entities : Duplicated(Entities[n].id)) =>
        /\ err = NoError
        /\ cmd = "find_entity" =>
               \A b \in DOMAIN out : \A j \in DOMAIN out[b].relationships :
                   LET line == out[b].relationships[j] IN
                   \E i \in DOMAIN Rels :
                       /\ Rels[i].type = line.relationship
                       /\ \/ /\ line.direction = "outgoing"
                             /\ Rels[i].source = out[b].entity.id
                             /\ FirstInLoadOrder(line.entity, Rels[i].target)
                          \/ /\ line.direction = "incoming"
                             /\ Rels[i].target = out[b].entity.id
                             /\ FirstInLoadOrder(line.entity, Rels[i].source)
        /\ cmd = "find_related" =>
               \A b \in DOMAIN out : \A j \in DOMAIN out[b].related :
                   LET entry == out[b].related[j] IN
                   \E i \in DOMAIN Rels :
                       /\ Rels[i].type = entry.relationship
                       /\ \/ /\ entry.direction = "outgoing"
                             /\ Rels[i].source = out[b].entity.id
                             /\ FirstInLoadOrder(entry.entity, Rels[i].target)
                          \/ /\ entry.direction = "incoming"
                             /\ Rels[i].target = out[b].entity.id
                             /\ FirstInLoadOrder(entry.entity, Rels[i].source)
        /\ cmd = "search" =>
               \A j \in DOMAIN out :
                   out[j].type = "relationship" =>
                       /\ FirstInLoadOrder(out[j].source, out[j].data.source)
                       /\ FirstInLoadOrder(out[j].target, out[j].data.target)

\* find_entity shows, for an entity that is the second with its id, a
\* relationship whose other endpoint is an id carried by two different
\* entities
C17_WitnessEntity ==
    /\ cmd = "find_entity"
    /\ \E b \in DOMAIN out :
           /\ out[b].entity # EntityWithId(out[b].entity.id)
           /\ \E j \in DOMAIN out[b].relationships :
                  /\ Duplicated(out[b].relationships[j].entity.id)
                  /\ Entities[Len(Entities)] # out[b].relationships[j].entity
                  /\ Entities[Len(Entities)].id = out[b].relationships[j].entity.id

\* find_related lists a neighbor whose id a later, different entity carries
\* too
C17_WitnessRelated ==
    /\ cmd = "find_related"
    /\ \E b \in DOMAIN out : \E j \in DOMAIN out[b].related :
           /\ Entities[Len(Entities)] # out[b].related[j].entity
           /\ Entities[Len(Entities)].id = out[b].related[j].entity.id

\* search returns a relationship whose source id a later, different entity
\* carries too
C17_WitnessSearch ==
    /\ cmd = "search"
    /\ \E j \in DOMAIN out :
           /\ out[j].type = "relationship"
           /\ Entities[Len(Entities)] # out[j].source
           /\ Entities[Len(Entities)].id = out[j].data.source

\* the result of the last query is what the query yields on the document
\* that was loaded
OutputOfLoadedDocument ==
    /\ cmd = "find_entity" => out = find_entity(kg, arg).out
    /\ cmd = "find_related" => out = find_related(kg, arg).out
    /\ cmd = "list_types" =>
           \E entityOrder \in IterationOrders(TypeSet(GetEntities(kg))),
              relOrder \in IterationOrders(TypeSet(GetRelationships(kg))) :
               out = list_types(kg, entityOrder, relOrder)
    /\ cmd = "list_entities_by_type" => out = list_entities_by_type(kg, arg)
    /\ cmd = "search" => out = search(kg, arg).out
    /\ cmd = "show_info" => out = show_info(kg)

\* C18: an invocation reads the document file exactly once, before any
\* query runs, and never writes it: the loaded document is the content the
\* file had at that read and stays the same afterwards, so when another
\* process rewrites the file after the load the output is that for the
\* document that was loaded; and a step that changes the file is never a
\* step of the invocation, so no invocation changes the file another one
\* sees.
C18_ReadOnceNeverWritten ==
    /\ [](/\ pc = "start" => (reads = 0 /\ NoQuery)
          /\ pc # "start" => reads = 1
          /\ cmd # "load" => pc = "loaded"
          /\ OutputOfLoadedDocument)
    /\ [][reads' # reads => (pc' = "loaded" => kg' = file)]_vars
    /\ [][pc = "loaded" => kg' = kg]_vars
    /\ [][file' # file =>
             UNCHANGED <<kg, cmd, arg, out, err, pc, diag, reads>>]_vars

\* find_entity has run after the file was replaced by a document on which
\* it yields something else
C18_Witness ==
    /\ cmd = "find_entity"
    /\ reads = 1
    /\ file \in FileDocuments
    /\ file # kg
    /\ out # find_entity(file, arg).out

\* C19: for every entity type t that list_types lists with count c,
\* list_entities_by_type(t) returns exactly c entities, also when the type
\* strings of the document differ only in letter case.
C19_ListedCountIsListedEntities ==
    cmd = "list_types" =>
        \A i \in DOMAIN out.entity_types :
            Len(list_entities_by_type(kg, out.entity_types[i].type))
                = out.entity_types[i].count

\* C20: for every entity matched by a name pattern, the relationships that
\* find_entity lists under it are the same (relationship, neighbor,
\* direction) entries that find_related returns for it: every relationship
\* with the entity as source and a resolvable target is listed as outgoing
\* and every one with the entity as target and a resolvable source as
\* incoming, a relationship from the entity to itself included.
C20_SameRelationshipsInBothQueries ==
    cmd = "find_entity" =>
        LET related == find_related(kg, arg).out IN
        /\ Len(related) = Len(out)
        /\ \A b \in DOMAIN out :
               /\ related[b].entity = out[b].entity
               /\ \A x \in Range(out[b].relationships) \cup Range(related[b].related) :
                      Occurrences(out[b].relationships, x)
                          = Occurrences(related[b].related, x)
               /\ \A i \in OutgoingOf(out[b].entity) :
                      \E j \in DOMAIN out[b].relationships :
                          out[b].relationships[j] = OutgoingEntry(i)
               /\ \A i \in IncomingOf(out[b].entity) :
                      \E j \in DOMAIN out[b].relationships :
                          out[b].relationships[j] = IncomingEntry(i)

\* the counts three files hold now
CurrentCounts ==
    [entity_count |-> IntValue(Len(GetEntities(kgJson))),
     relationship_count |-> IntValue(Len(GetRelationships(kgJson))),
     files_processed |->
         IntValue(Len(IF HasKey(registry, "processed_files")
                      THEN registry.processed_files ELSE <<>>))]

\* the three counts of a project state or of a displayed summary
CountsOf(d) ==
    [entity_count |-> d.entity_count,
     relationship_count |-> d.relationship_count,
     files_processed |-> d.files_processed]

\* C21: after quick_resume's main has completed with a readable session
\* state and a readable knowledge graph (and registry), the entity_count,
\* relationship_count and files_processed it displays and leaves in
\* session_state.json are the current numbers of entities and relationships
\* in kg.json and of processed files in registry.json, whatever the stored
\* values were before.
C21_ResumeShowsCurrentCounts ==
    (/\ script = "quick_resume"
     /\ HasKey(resume, "entity_count")
     /\ ~Unreadable(kgJson)
     /\ ~Unreadable(registry)) =>
        /\ CountsOf(resume) = CurrentCounts
        /\ CountsOf(session.project_state) = CurrentCounts

\* the relationship types of the stored session state, and the first five
\* of them
SummaryTypes == session.taxonomy_summary.relationship_types

FirstFive == { SummaryTypes[i] : i \in { j \in DOMAIN SummaryTypes : j <= 5 } }

\* C22: in the generated resume summary, the number N of "and N more" in the
\* relationship-types line is the number of relationship types of the
\* taxonomy summary that are not among the listed first five, and is never
\* negative, for any number of relationship types, fewer than five included.
C22_MoreCountsTheRest ==
    (script = "resume_state" /\ HasKey(resume, "more")) =>
        /\ resume.more = Cardinality(Range(SummaryTypes) \ FirstFive)
        /\ resume.more >= 0
        /\ resume.listed = JoinList(SubSeq(SummaryTypes, 1, Cardinality(FirstFive)))

====
